---- MODULE Spec2Model ----
(***************************************************************************)
(* Chronos Aeternum TUI (src/src/main.rs): the event loop of main, the     *)
(* virtual clock of App (on_tick, time_multiplier), the selection / edit   *)
(* state machine and the note store.                                       *)
(*                                                                         *)
(* Time is counted in microseconds (the unit on_tick works in).  The f64   *)
(* time_multiplier is carried exactly: every value the program reaches     *)
(* from 1.0 by "+= 0.1" and "- 0.1" is a multiple of 2^-56, so a value is  *)
(* a sign and a magnitude in units of 2^-56, the magnitude held in limbs   *)
(* of 14 bits (least significant first), and each f64 operation rounds     *)
(* its exact result to 53 significant bits, ties to even, as IEEE 754.     *)
(***************************************************************************)
EXTENDS Integers, Sequences, FiniteSets, TLC

(***************************************************************************)
(* Bounds of the model.                                                    *)
(***************************************************************************)
\* real time the model lets pass, in cadence windows of tick_rate
MaxWindows == 2
\* the '+' key is accepted while time_multiplier is below 1.0 + MaxBoost/10
MaxBoost == 1
\* characters and line breaks the model lets the text area hold
MaxText == 1
\* notes the store may hold when the user opens an edit session on a new key
MaxNotes == 1
\* backward steps of the wall clock (Local::now is not monotonic)
MaxAdjust == 1

(***************************************************************************)
(* f64 arithmetic on multiples of 2^-56.                                   *)
(***************************************************************************)
LimbBits == 14
LimbBase == 2 ^ LimbBits
NLimbs == 5
FracLimbs == 4
Mantissa == 53

Pow2(n) == 2 ^ n

ZeroMag == [i \in 1..NLimbs |-> 0]

\* a natural below 2^28 as a magnitude
MagOf(n) == [i \in 1..NLimbs |->
               IF i = 1 THEN n % LimbBase
               ELSE IF i = 2 THEN n \div LimbBase ELSE 0]

RECURSIVE AddC(_, _, _, _)
AddC(a, b, i, carry) ==
  IF i > Len(a) THEN << >>
  ELSE LET s == a[i] + b[i] + carry
       IN  << s % LimbBase >> \o AddC(a, b, i + 1, s \div LimbBase)

MagAdd(a, b) == AddC(a, b, 1, 0)

RECURSIVE SubB(_, _, _, _)
SubB(a, b, i, borrow) ==
  IF i > Len(a) THEN << >>
  ELSE LET d == a[i] - b[i] - borrow
       IN  IF d < 0 THEN << d + LimbBase >> \o SubB(a, b, i + 1, 1)
           ELSE << d >> \o SubB(a, b, i + 1, 0)

\* a - b for a >= b
MagSub(a, b) == SubB(a, b, 1, 0)

RECURSIVE LessFrom(_, _, _)
LessFrom(a, b, i) ==
  IF i = 0 THEN FALSE
  ELSE IF a[i] # b[i] THEN a[i] < b[i]
  ELSE LessFrom(a, b, i - 1)

MagLess(a, b) == LessFrom(a, b, Len(a))

MagIsZero(a) == \A i \in 1..Len(a) : a[i] = 0

RECURSIVE IntBits(_)
IntBits(n) == IF n = 0 THEN 0 ELSE 1 + IntBits(n \div 2)

RECURSIVE BitsFrom(_, _)
BitsFrom(a, i) ==
  IF i = 0 THEN 0
  ELSE IF a[i] # 0 THEN (i - 1) * LimbBits + IntBits(a[i])
  ELSE BitsFrom(a, i - 1)

\* number of significant bits of a magnitude
BitLen(a) == BitsFrom(a, Len(a))

\* round to nearest, ties to even, to Mantissa significant bits
RoundMag(a) ==
  LET k == BitLen(a) - Mantissa
  IN  IF k <= 0 THEN a
      ELSE LET low  == a[1] + LimbBase * a[2]
               q    == Pow2(k)
               r    == low % q
               down == MagSub(a, MagOf(r))
               up   == MagAdd(down, MagOf(q))
               odd  == (low \div q) % 2 = 1
           IN  IF 2 * r < q THEN down
               ELSE IF 2 * r > q THEN up
               ELSE IF odd THEN up ELSE down

\* the f64 values: sign and magnitude
F64(neg, mag) == [neg |-> neg, mag |-> mag]

\* 0.1_f64 = 0x3FB999999999999A = 7205759403792794 * 2^-56
Tenth == F64(FALSE, << 6554, 9830, 6553, 1638, 0 >>)
One == F64(FALSE, << 0, 0, 0, 0, 1 >>)
Zero == F64(FALSE, ZeroMag)

IsZero(x) == MagIsZero(x.mag)
IsNegative(x) == x.neg /\ ~MagIsZero(x.mag)

\* x + y in f64
FAdd(x, y) ==
  IF x.neg = y.neg THEN F64(x.neg, RoundMag(MagAdd(x.mag, y.mag)))
  ELSE IF MagLess(x.mag, y.mag) THEN F64(y.neg, RoundMag(MagSub(y.mag, x.mag)))
  ELSE IF x.mag = y.mag THEN Zero
  ELSE F64(x.neg, RoundMag(MagSub(x.mag, y.mag)))

\* x - y in f64
FSub(x, y) == FAdd(x, F64(~y.neg, y.mag))

\* x < y in f64
FLess(x, y) ==
  IF IsZero(x) /\ IsZero(y) THEN FALSE
  ELSE IF x.neg # y.neg THEN x.neg
  ELSE IF x.neg THEN MagLess(y.mag, x.mag)
  ELSE MagLess(x.mag, y.mag)

\* f64::max(x, 0.0)
FMax0(x) == IF FLess(x, Zero) THEN Zero ELSE x

RECURSIVE MulC(_, _, _, _)
MulC(a, d, i, carry) ==
  IF i > Len(a) THEN << carry % LimbBase, carry \div LimbBase >>
  ELSE LET p == a[i] * d + carry
       IN  << p % LimbBase >> \o MulC(a, d, i + 1, p \div LimbBase)

\* the exact product of a magnitude and a natural below 2^17, two limbs longer
MagMul(a, d) == MulC(a, d, 1, 0)

Abs(n) == IF n < 0 THEN -n ELSE n

\* ((n as f64) * x) as i64: the f64 product, rounded, then truncated toward zero
MulTrunc(n, x) ==
  LET p     == MagMul(x.mag, Abs(n))
      whole == p[FracLimbs + 1] + LimbBase * p[FracLimbs + 2]
                 + LimbBase * LimbBase * p[FracLimbs + 3]
      frac  == [i \in 1..NLimbs |-> IF i <= FracLimbs THEN p[i] ELSE 0]
      k     == BitLen(p) - Mantissa
      \* distance from the product up to the next integer
      gap   == MagSub(One.mag, frac)
      carry == k >= 1 /\ ~MagLess(MagOf(Pow2(k - 1)), gap)
      t     == IF carry THEN whole + 1 ELSE whole
  IN  IF x.neg = (n < 0) THEN t ELSE -t

(***************************************************************************)
(* Time.  Instants and the wall clock are microseconds since the start of  *)
(* the program; a DateTime<Local> is local seconds and microseconds.       *)
(***************************************************************************)
\* tick_rate = Duration::from_millis(16)
TickRateMs == 16
TickRate == TickRateMs * 1000
MaxTime == MaxWindows * TickRate

SecsPerHour == 60 * 60
SecsPerDay == 24 * SecsPerHour
MicrosPerSec == 1000 * 1000

\* Local::now() at startup: 23:59:59.990 of day 0, 10 ms before the hour and
\* the date change
StartTimes == { [secs |-> SecsPerDay - 1, micros |-> 990 * 1000] }
\* how long one terminal.draw can take; how long poll can wait for an event
DrawTimes == { 0, 20 * 1000 }
PollWaits == { 0, 8 * 1000 }
\* by how much the wall clock is set back in one adjustment
AdjustStep == 30 * 1000

\* DateTime + Duration::microseconds(d)
AddMicros(t, d) ==
  LET total == t.micros + d
      carry == IF total >= 0 THEN total \div MicrosPerSec
               ELSE -((MicrosPerSec - 1 - total) \div MicrosPerSec)
  IN  [secs |-> t.secs + carry, micros |-> total - carry * MicrosPerSec]

TimeLeq(s, t) == s.secs < t.secs \/ (s.secs = t.secs /\ s.micros <= t.micros)

HourOf(t) == (t.secs \div SecsPerHour) % 24
DayOf(t) == t.secs \div SecsPerDay

(***************************************************************************)
(* The breathing scale.  virtual_time.timestamp() lies between 2^30 and    *)
(* 2^31 (the years 2004 to 2038), where an f64 is a multiple of 2^-22: so  *)
(* total_secs and total_secs + phase_offset are the real sums rounded to   *)
(* that grid, and the %, the comparisons, t / 4.0, (t - 5.0) / 8.0 and the *)
(* subtraction from 1.0 are exact.  Times are counted in units of 2^-22 s, *)
(* scales in units of 2^-25.                                               *)
(***************************************************************************)
\* binary places of an f64 between 2^30 and 2^31
GridBits == 22
Grid == 2 ^ GridBits
\* 1.0 in the units of a scale
ScaleOne == 8 * Grid

\* virtual_time.timestamp() at secs = 0: 2026-11-04 00:00:00 UTC
BaseTimestamp == 1793750400
Timestamp(t) == BaseTimestamp + t.secs

\* the length of a breath: 4 + 1 + 8
BreathPeriod == 13

\* emanations: the phase offsets 0.0, 4.33 and 8.66 rounded to the grid
Emanations == << 0, 18161336, 36322673 >>

\* nanosecond() as f64 / 1_000_000_000.0, rounded to the grid by the addition
\* to the timestamp: micros * 2^22 / 10^6 to the nearest (never a tie, the
\* divisor 15625 being odd)
FracUnits(micros) ==
  (micros \div 15625) * 65536 + ((micros % 15625) * 65536 + 7812) \div 15625

\* let t = (total_secs + phase_offset) % 13.0
BreathPhase(t, phase_offset) ==
  ((Timestamp(t) % BreathPeriod) * Grid + FracUnits(t.micros) + phase_offset)
    % (BreathPeriod * Grid)

\* a slip: the exhale taken over 4 seconds instead of 8
BreathingScaleFastExhale(t, phase_offset) ==
  LET ph == BreathPhase(t, phase_offset)
  IN  IF ph < 4 * Grid THEN 2 * ph
      ELSE IF ph < 5 * Grid THEN ScaleOne
      ELSE ScaleOne - 2 * (ph - 5 * Grid)

\* App::get_breathing_scale
GetBreathingScale(t, phase_offset) ==
  LET ph == BreathPhase(t, phase_offset)
  IN  IF ph < 4 * Grid THEN 2 * ph
      ELSE IF ph < 5 * Grid THEN ScaleOne
      ELSE ScaleOne - (ph - 5 * Grid)

(***************************************************************************)
(* Option values, strings and the text area.  A string is a sequence of    *)
(* characters; NL is the line feed.                                        *)
(***************************************************************************)
None == << >>
Some(v) == << v >>
IsSome(o) == Len(o) = 1
Unwrap(o) == o[1]

NL == "\n"

RECURSIVE Join(_)
\* lines.join("\n")
Join(lines) ==
  IF Len(lines) = 0 THEN << >>
  ELSE IF Len(lines) = 1 THEN lines[1]
  ELSE lines[1] \o << NL >> \o Join(Tail(lines))

RECURSIVE Split(_, _)
\* the pieces of s between line feeds, cur being the piece under way
Split(s, cur) ==
  IF Len(s) = 0 THEN << cur >>
  ELSE IF Head(s) = NL THEN << cur >> \o Split(Tail(s), << >>)
  ELSE Split(Tail(s), Append(cur, Head(s)))

\* str::lines(): a final line feed ends the last line, it opens no new one
StrLines(s) ==
  LET pieces == Split(s, << >>)
  IN  IF pieces[Len(pieces)] = << >> THEN SubSeq(pieces, 1, Len(pieces) - 1)
      ELSE pieces

\* TextArea::from(lines) and TextArea::default(): never without a line, the
\* cursor at the start
TextAreaFrom(lines) ==
  [lines |-> IF Len(lines) = 0 THEN << << >> >> ELSE lines, row |-> 1, col |-> 0]

TextAreaDefault == TextAreaFrom(<< >>)

\* characters and line breaks held by the text area
BufferSize(ta) == Len(Join(ta.lines))

InsertChar(ta, c) ==
  LET line == ta.lines[ta.row]
      new  == SubSeq(line, 1, ta.col) \o << c >> \o SubSeq(line, ta.col + 1, Len(line))
  IN  [ta EXCEPT !.lines[ta.row] = new, !.col = ta.col + 1]

InsertNewline(ta) ==
  LET line   == ta.lines[ta.row]
      before == SubSeq(ta.lines, 1, ta.row - 1)
      after  == SubSeq(ta.lines, ta.row + 1, Len(ta.lines))
  IN  [lines |-> before \o << SubSeq(line, 1, ta.col),
                              SubSeq(line, ta.col + 1, Len(line)) >> \o after,
       row |-> ta.row + 1, col |-> 0]

Min(a, b) == IF a < b THEN a ELSE b

\* the last two entries of a sequence
LastTwo(q) == IF Len(q) <= 2 THEN q ELSE SubSeq(q, Len(q) - 1, Len(q))

MoveCursor(ta, e) ==
  LET line == ta.lines[ta.row]
  IN  CASE e = "Right" ->
             IF ta.col < Len(line) THEN [ta EXCEPT !.col = ta.col + 1]
             ELSE IF ta.row < Len(ta.lines) THEN [ta EXCEPT !.row = ta.row + 1, !.col = 0]
             ELSE ta
        [] e = "Left" ->
             IF ta.col > 0 THEN [ta EXCEPT !.col = ta.col - 1]
             ELSE IF ta.row > 1
                  THEN [ta EXCEPT !.row = ta.row - 1, !.col = Len(ta.lines[ta.row - 1])]
             ELSE ta
        [] e = "Up" ->
             IF ta.row > 1
             THEN [ta EXCEPT !.row = ta.row - 1,
                             !.col = Min(ta.col, Len(ta.lines[ta.row - 1]))]
             ELSE ta
        [] e = "Down" ->
             IF ta.row < Len(ta.lines)
             THEN [ta EXCEPT !.row = ta.row + 1,
                             !.col = Min(ta.col, Len(ta.lines[ta.row + 1]))]
             ELSE ta

\* the events the terminal delivers: key presses, and Mouse for every event
\* that is no key press
CharKeys == { "q", "+", "-", "a" }
ArrowKeys == { "Right", "Left", "Up", "Down" }
Events == CharKeys \cup ArrowKeys \cup { "Enter", "Esc", "Mouse" }

\* whether the text area takes one more character
Inserts(e) == e \in CharKeys \cup { "Enter" }

\* textarea.input(key)
TextAreaInput(ta, e) ==
  IF e \in CharKeys THEN InsertChar(ta, e)
  ELSE IF e = "Enter" THEN InsertNewline(ta)
  ELSE IF e \in ArrowKeys THEN MoveCursor(ta, e)
  ELSE ta

(***************************************************************************)
(* The note store and the note key.                                        *)
(***************************************************************************)
\* TimeNote { content, is_locked }
TimeNote(content, locked) == [content |-> content, is_locked |-> locked]

EmptyStore == [k \in {} |-> TimeNote(<< >>, FALSE)]

\* a slip: HashMap::entry(key).or_insert(note), which keeps an old entry
InsertIfAbsent(store, key, note) ==
  [k \in DOMAIN store \cup { key } |-> IF k \in DOMAIN store THEN store[k] ELSE note]

\* HashMap::insert
Insert(store, key, note) ==
  [k \in DOMAIN store \cup { key } |-> IF k = key THEN note ELSE store[k]]

\* HashMap::get
Lookup(store, key) == IF key \in DOMAIN store THEN Some(store[key]) ELSE None

\* {:02}: at least two decimal digits
RECURSIVE Digits(_)
Digits(n) == IF n < 10 THEN << n >> ELSE Append(Digits(n \div 10), n % 10)

Format02(n) == IF n < 10 THEN << 0, n >> ELSE Digits(n)

\* format!("{}-{:02}-{:02}", t.format("%Y-%m-%d"), t.hour(), minute_offset):
\* the calendar date stands as its day number, the fields keep their dashes
DateKey(t, minute_offset) ==
  << DayOf(t), "-" >> \o Format02(HourOf(t)) \o << "-" >> \o Format02(minute_offset)

(***************************************************************************)
(* The state: the fields of App, the locals of main, the two clocks of the *)
(* machine, the file of the note store, and what the last steps did.       *)
(***************************************************************************)
VARIABLES
  should_quit,
  real_time_last_tick,  \* App.real_time_last_tick, wall-clock microseconds
  virtual_time,
  time_multiplier,
  notes,
  selected_minute,
  textarea,
  is_editing,
  last_tick,            \* main's last_tick, an Instant
  timeout,              \* main's timeout, set before each poll
  pc,                   \* where the loop stands: draw, poll, tick, done
  mono,                 \* the monotonic clock behind Instant::now()
  wall,                 \* the wall clock behind Local::now()
  file,                 \* the notes last written to SAVE_FILE
  ev,                   \* the event read in this iteration
  polled,               \* what poll returned in this iteration
  ticked,               \* whether the last tick check called on_tick
  frame,                \* the last render: the time shown and when
  prev_frame,           \* the render before it
  moves,                \* the last two arrow keys in a row that moved the selection
  multiplier_before,    \* time_multiplier before the event of this iteration
  entry_key,            \* the key looked up when the open edit session began
  adjusts               \* wall-clock adjustments so far

vars == << should_quit, real_time_last_tick, virtual_time, time_multiplier, notes,
           selected_minute, textarea, is_editing, last_tick, timeout, pc, mono,
           wall, file, ev, polled, ticked, frame, prev_frame,
           moves,
                  multiplier_before, entry_key, adjusts >>

appVars == << should_quit, real_time_last_tick, virtual_time, time_multiplier,
              notes, selected_minute, textarea, is_editing >>

\* what load_notes can return: nothing, or a note of the starting hour
InitStores ==
  { EmptyStore }
  \cup { Insert(EmptyStore, DateKey(t, 0), TimeNote(<< "a", NL >>, TRUE)) : t \in StartTimes }

\* App::new() at one of the times, and the locals of main before the loop
InitFrom(times) ==
  /\ should_quit = FALSE
  /\ virtual_time \in times
  /\ real_time_last_tick = 0
  /\ time_multiplier = One
  /\ notes \in InitStores
  /\ file = notes
  /\ selected_minute = None
  /\ textarea = TextAreaDefault
  /\ is_editing = FALSE
  /\ last_tick = 0
  /\ timeout = 0
  /\ pc = "draw"
  /\ mono = 0
  /\ wall = 0
  /\ ev = "none"
  /\ polled = "none"
  /\ ticked = FALSE
  /\ frame = None
  /\ prev_frame = None
  /\ moves = << >>
  /\ multiplier_before = None
  /\ entry_key = None
  /\ adjusts = 0

Init == InitFrom(StartTimes)

(***************************************************************************)
(* The virtual clock.                                                      *)
(***************************************************************************)
\* a slip: the delta taken unscaled
VirtualDeltaUnscaled(delta_micros, multiplier) == delta_micros

\* Duration::microseconds((delta_micros as f64 * self.time_multiplier) as i64)
VirtualDelta(delta_micros, multiplier) == MulTrunc(delta_micros, multiplier)

\* a slip: the operands of signed_duration_since exchanged
DeltaSwapped(now, last) == last - now

\* now.signed_duration_since(self.real_time_last_tick).num_microseconds()
DeltaMicros(now, last) == now - last

\* App::on_tick
OnTick ==
  LET now          == wall
      delta_micros == DeltaMicros(now, real_time_last_tick)
  IN  /\ virtual_time' = AddMicros(virtual_time, VirtualDelta(delta_micros, time_multiplier))
      /\ real_time_last_tick' = now

\* time_multiplier += 0.1
Increase(m) == FAdd(m, Tenth)

\* a slip: the floor left out
DecreaseUnclamped(m) == FSub(m, Tenth)

\* (time_multiplier - 0.1).max(0.0)
Decrease(m) == FMax0(FSub(m, Tenth))

\* the largest multiplier at which the model still presses '+'
RECURSIVE Boosted(_)
Boosted(n) == IF n = 0 THEN One ELSE FAdd(Boosted(n - 1), Tenth)

(***************************************************************************)
(* The selection.                                                          *)
(***************************************************************************)
\* selected_minute.map(|m| (m + 1) % 60).unwrap_or(0)
RightOf(sel) == IF IsSome(sel) THEN (Unwrap(sel) + 1) % 60 ELSE 0

\* a slip: m - 1 with no wrap at 0
LeftNoWrap(sel) == IF IsSome(sel) THEN Unwrap(sel) - 1 ELSE 0

\* selected_minute.map(|m| if m == 0 { 59 } else { m - 1 }).unwrap_or(0)
LeftOf(sel) ==
  IF IsSome(sel) THEN (IF Unwrap(sel) = 0 THEN 59 ELSE Unwrap(sel) - 1) ELSE 0

\* a slip: m + 5 with no wrap at 60
UpNoWrap(sel) == IF IsSome(sel) THEN Unwrap(sel) + 5 ELSE 0

\* selected_minute.map(|m| (m + 5) % 60).unwrap_or(0)
UpOf(sel) == IF IsSome(sel) THEN (Unwrap(sel) + 5) % 60 ELSE 0

\* selected_minute.map(|m| if m < 5 { m + 55 } else { m - 5 }).unwrap_or(0)
DownOf(sel) ==
  IF IsSome(sel) THEN (IF Unwrap(sel) < 5 THEN Unwrap(sel) + 55 ELSE Unwrap(sel) - 5)
  ELSE 0

\* App::get_date_key
GetDateKey(minute_offset) == DateKey(virtual_time, minute_offset)

\* a slip: the stored note is not loaded
LoadBufferDefault(store, key) == TextAreaDefault

\* the text area Enter opens for the note under key
LoadBuffer(store, key) ==
  IF IsSome(Lookup(store, key))
  THEN TextAreaFrom(StrLines(Unwrap(Lookup(store, key)).content))
  ELSE TextAreaDefault

\* the note Esc commits
CommitNote(ta) == TimeNote(Join(ta.lines), FALSE)

\* the key Esc commits under
CommitKey(m) == GetDateKey(m)

(***************************************************************************)
(* The key handlers of main.  Each gives the next value of every field the *)
(* handlers can touch.                                                     *)
(***************************************************************************)
\* save_notes: the write is best effort, its failure is dropped
SaveNotes(store) == file' \in { store, file }

\* a slip: a write that fails ends the loop
OnEscAbort ==
  /\ is_editing' = FALSE
  /\ IF IsSome(selected_minute)
     THEN /\ notes' = Insert(notes, CommitKey(Unwrap(selected_minute)), CommitNote(textarea))
          /\ SaveNotes(notes')
          /\ should_quit' = (file' # notes')
     ELSE UNCHANGED << notes, file, should_quit >>
  /\ entry_key' = None
  /\ UNCHANGED << time_multiplier, selected_minute, textarea >>

\* KeyCode::Esc while editing
OnEsc ==
  /\ is_editing' = FALSE
  /\ IF IsSome(selected_minute)
     THEN /\ notes' = Insert(notes, CommitKey(Unwrap(selected_minute)), CommitNote(textarea))
          /\ SaveNotes(notes')
     ELSE UNCHANGED << notes, file >>
  /\ entry_key' = None
  /\ UNCHANGED << should_quit, time_multiplier, selected_minute, textarea >>

\* any other key while editing: app.textarea.input(key)
OnTextKey(e) ==
  /\ Inserts(e) => BufferSize(textarea) < MaxText
  /\ textarea' = TextAreaInput(textarea, e)
  /\ UNCHANGED << should_quit, time_multiplier, notes, file, selected_minute,
                  is_editing, entry_key >>

\* if let Some(m) = app.selected_minute, under KeyCode::Enter
CanEdit(sel) == IsSome(sel)

\* KeyCode::Enter while not editing
OnEnter ==
  IF CanEdit(selected_minute)
  THEN /\ \/ GetDateKey(Unwrap(selected_minute)) \in DOMAIN notes
          \/ Cardinality(DOMAIN notes) < MaxNotes
       /\ is_editing' = TRUE
       /\ LET key == GetDateKey(Unwrap(selected_minute))
          IN  /\ textarea' = LoadBuffer(notes, key)
              /\ entry_key' = Some(key)
       /\ UNCHANGED << should_quit, time_multiplier, notes, file, selected_minute >>
  ELSE UNCHANGED << should_quit, time_multiplier, notes, file, selected_minute,
                    textarea, is_editing, entry_key >>

\* the arrow keys while not editing
Moved(e, sel) ==
  CASE e = "Right" -> RightOf(sel)
    [] e = "Left"  -> LeftOf(sel)
    [] e = "Up"    -> UpOf(sel)
    [] e = "Down"  -> DownOf(sel)

\* the match on key.code while not editing
OnSelectKey(e) ==
  CASE e = "q" ->
         /\ should_quit' = TRUE
         /\ UNCHANGED << time_multiplier, notes, file, selected_minute, textarea,
                         is_editing, entry_key >>
    [] e = "+" ->
         /\ FLess(time_multiplier, Boosted(MaxBoost))
         /\ time_multiplier' = Increase(time_multiplier)
         /\ UNCHANGED << should_quit, notes, file, selected_minute, textarea,
                         is_editing, entry_key >>
    [] e = "-" ->
         /\ time_multiplier' = Decrease(time_multiplier)
         /\ UNCHANGED << should_quit, notes, file, selected_minute, textarea,
                         is_editing, entry_key >>
    [] e \in ArrowKeys ->
         /\ selected_minute' = Some(Moved(e, selected_minute))
         /\ UNCHANGED << should_quit, time_multiplier, notes, file, textarea,
                         is_editing, entry_key >>
    [] e = "Enter" -> OnEnter
    [] OTHER ->
         UNCHANGED << should_quit, time_multiplier, notes, file, selected_minute,
                      textarea, is_editing, entry_key >>

\* a slip: only Esc looks at is_editing, every other key is matched as when
\* not editing
OnEventNoMode(e) ==
  IF e = "Mouse"
  THEN UNCHANGED << should_quit, time_multiplier, notes, file, selected_minute,
                    textarea, is_editing, entry_key >>
  ELSE IF is_editing /\ e = "Esc" THEN OnEsc ELSE OnSelectKey(e)

\* what the loop does with an event it has read
OnEvent(e) ==
  IF e = "Mouse"
  THEN UNCHANGED << should_quit, time_multiplier, notes, file, selected_minute,
                    textarea, is_editing, entry_key >>
  ELSE IF is_editing
       THEN (IF e = "Esc" THEN OnEsc ELSE OnTextKey(e))
       ELSE OnSelectKey(e)

(***************************************************************************)
(* The loop of main.                                                       *)
(***************************************************************************)
\* not the code: a frame that adds the scaled real time since the last on_tick
DisplayedLive ==
  AddMicros(virtual_time,
            VirtualDelta(DeltaMicros(wall, real_time_last_tick), time_multiplier))

\* the virtual time a frame shows: let t = app.virtual_time in ui
Displayed == virtual_time

\* the scale of each emanation in a frame of the time t: the loops over
\* app.emanations in ui
Scales(t) ==
  [i \in 1..Len(Emanations) |-> GetBreathingScale(t, Emanations[i])]

\* a slip: the whole tick_rate as the timeout of every poll
TimeoutFull(elapsed) == TickRate

\* tick_rate.checked_sub(last_tick.elapsed()).unwrap_or(0)
TimeoutFor(elapsed) == IF elapsed <= TickRate THEN TickRate - elapsed ELSE 0

\* last_tick.elapsed() >= tick_rate
TickDue(elapsed) == elapsed >= TickRate

\* terminal.draw, taking d, and the timeout for the poll
Draw(d) ==
  /\ pc = "draw"
  /\ mono + d <= MaxTime
  /\ prev_frame' = frame
  /\ frame' = Some([shown |-> Displayed, at |-> mono, after_tick |-> ticked,
                    scales |-> Scales(Displayed)])
  /\ mono' = mono + d
  /\ wall' = wall + d
  /\ timeout' = TimeoutFor(mono' - last_tick)
  /\ pc' = "poll"
  /\ UNCHANGED << appVars, last_tick, file, ev, polled, ticked, moves,
                  multiplier_before, entry_key, adjusts >>

\* poll returns true after w: the event e is read and handled
PollEvent(e, w) ==
  /\ pc = "poll"
  /\ w <= timeout
  /\ mono + w <= MaxTime
  /\ mono' = mono + w
  /\ wall' = wall + w
  /\ ev' = e
  /\ polled' = "event"
  /\ moves' = IF e \in ArrowKeys /\ ~is_editing
              THEN LastTwo(Append(moves, [key |-> e, from |-> selected_minute]))
              ELSE IF e = "Mouse" THEN moves ELSE << >>
  /\ multiplier_before' = Some(time_multiplier)
  /\ OnEvent(e)
  /\ pc' = "tick"
  /\ UNCHANGED << real_time_last_tick, virtual_time, last_tick, timeout, ticked,
                  frame, prev_frame, adjusts >>

\* poll returns false: the timeout has passed with no event
PollTimeout ==
  /\ pc = "poll"
  /\ mono + timeout <= MaxTime
  /\ mono' = mono + timeout
  /\ wall' = wall + timeout
  /\ polled' = "timeout"
  /\ pc' = "tick"
  /\ UNCHANGED << appVars, last_tick, timeout, file, ev, ticked, frame, prev_frame, moves,
                  multiplier_before, entry_key, adjusts >>

\* the tick check and the quit check that end an iteration
TickCheck ==
  /\ pc = "tick"
  /\ IF TickDue(mono - last_tick)
     THEN /\ OnTick
          /\ last_tick' = mono
          /\ ticked' = TRUE
     ELSE /\ UNCHANGED << virtual_time, real_time_last_tick, last_tick >>
          /\ ticked' = FALSE
  /\ pc' = IF should_quit THEN "done" ELSE "draw"
  /\ ev' = "none"
  /\ polled' = "none"
  /\ multiplier_before' = None
  /\ UNCHANGED << should_quit, time_multiplier, notes, selected_minute, textarea,
                  is_editing, timeout, mono, wall, file, frame, prev_frame,
                  moves, entry_key, adjusts >>

\* the wall clock is set back while the loop waits in poll; only the next
\* on_tick reads it
WallStepBack ==
  /\ pc = "poll"
  /\ adjusts < MaxAdjust
  /\ adjusts' = adjusts + 1
  /\ wall' = wall - AdjustStep
  /\ UNCHANGED << appVars, last_tick, timeout, pc, mono, file, ev, polled, ticked,
                  frame, prev_frame, moves,
                  multiplier_before, entry_key >>

\* the loop when the user presses the keys of the set keys, a draw takes one of
\* the times draws and an event comes after one of the times waits
Loop(keys, draws, waits) ==
  \/ \E d \in draws : Draw(d)
  \/ \E e \in keys, w \in waits : PollEvent(e, w)
  \/ PollTimeout
  \/ TickCheck

Next == Loop(Events, DrawTimes, PollWaits) \/ WallStepBack
Spec == Init /\ [][Next]_vars

\* the user works the clock: speed keys, quit, and keys that select nothing,
\* on a machine whose draws can be slow and whose wall clock can be set back
ClockKeys == { "+", "-", "q", "Enter", "Mouse" }
NextClock == Loop(ClockKeys, DrawTimes, PollWaits) \/ WallStepBack
SpecClock == Init /\ [][NextClock]_vars

\* the user moves the selection; draws are instant, events come at once or
\* not within the window
SelectKeys == ArrowKeys \cup { "q", "Esc", "Mouse" }
NextSelect == Loop(SelectKeys, { 0 }, { 0 })
SpecSelect == Init /\ [][NextSelect]_vars

\* the user opens, fills and closes notes of the minutes 0, 5, .., 55
EditKeys == { "Up", "Enter", "Esc", "a" }
NextEdit == Loop(EditKeys, { 0 }, { 0 })
SpecEdit == Init /\ [][NextEdit]_vars

\* typing: the user selects a minute and opens an edit session with OpenKeys,
\* then presses every key of the non-editing match but Esc
OpenKeys == { "Up", "Enter" }
TypeKeys == ArrowKeys \cup { "q", "+", "-", "Enter", "Mouse" }
NextType == Loop(IF is_editing THEN TypeKeys ELSE OpenKeys, { 0 }, { 0 })
SpecType == Init /\ [][NextType]_vars

\* the breathing field: the program started just before and at each turn of
\* the breath; the keys change the speed of the virtual clock
BreathStart == 13 * 6645
BreathTimes ==
  { [secs |-> BreathStart + k - 1, micros |-> 990 * 1000] : k \in { 0, 4, 5 } }
  \cup { [secs |-> BreathStart + k, micros |-> 0] : k \in { 0, 4, 5 } }
InitBreath == InitFrom(BreathTimes)
BreathKeys == { "+", "Mouse" }
NextBreath == Loop(BreathKeys, { 0 }, PollWaits)
SpecBreath == InitBreath /\ [][NextBreath]_vars

(***************************************************************************)
(* Properties.                                                             *)
(***************************************************************************)
\* C1: the note Esc commits is stored under the key that was looked up when
\* Enter opened the edit session, whatever ticks came between the two.
C1_KeyFixedAtEntry ==
  [][(is_editing /\ ev' = "Esc")
       => /\ IsSome(entry_key)
          /\ Unwrap(entry_key) \in DOMAIN notes'
          /\ notes'[Unwrap(entry_key)].content = Join(textarea.lines)]_vars

\* C2: an on_tick at multiplier 0.0 leaves virtual_time as it was and sets
\* real_time_last_tick to the current wall time, whatever the real delta.
C2_FrozenAtZero ==
  [][(pc = "tick" /\ ticked' /\ IsZero(time_multiplier))
       => /\ virtual_time' = virtual_time
          /\ real_time_last_tick' = wall]_vars

\* an on_tick at multiplier 0.0 has run over a real delta of a window or more
C2_Witness ==
  /\ pc = "draw"
  /\ ticked
  /\ IsZero(time_multiplier)
  /\ adjusts = 0
  /\ real_time_last_tick >= TickRate

\* C3: no step lowers virtual_time, key events included, except an on_tick
\* whose real delta is negative.
C3_Monotone ==
  [][\/ pc = "tick" /\ ticked' /\ wall < real_time_last_tick
     \/ TimeLeq(virtual_time, virtual_time')]_vars

\* on_tick has advanced virtual_time at a multiplier strictly between 0 and 1
C3_Witness ==
  /\ pc = "draw"
  /\ ticked
  /\ adjusts = 0
  /\ FLess(Zero, time_multiplier)
  /\ FLess(time_multiplier, One)
  /\ \E t \in StartTimes : TimeLeq(t, virtual_time) /\ t # virtual_time

\* C4: time_multiplier is never negative, and '-' pressed at 0.0 leaves it at
\* 0.0 and the loop running.
C4_NeverNegative ==
  /\ [](~IsNegative(time_multiplier))
  /\ [][(ev' = "-" /\ ~is_editing /\ IsZero(time_multiplier))
          => IsZero(time_multiplier') /\ pc' = "tick"]_vars

\* '-' has been handled at 0.0
C4_Witness ==
  /\ ev = "-"
  /\ multiplier_before = Some(Zero)
  /\ time_multiplier = Zero

\* C5: a selected minute is an integer of 0..59.
C5_InRange == IsSome(selected_minute) => Unwrap(selected_minute) \in 0..59

\* Left has wrapped the selection from 0 to 59
C5_Witness ==
  /\ selected_minute = Some(59)
  /\ Len(moves) >= 1
  /\ moves[Len(moves)] = [key |-> "Left", from |-> Some(0)]

Opposite(k) ==
  CASE k = "Right" -> "Left"
    [] k = "Left"  -> "Right"
    [] k = "Up"    -> "Down"
    [] k = "Down"  -> "Up"

\* the minutes an arrow key adds, modulo 60
StepOf(k) ==
  CASE k = "Right" -> 1
    [] k = "Left"  -> 60 - 1
    [] k = "Up"    -> 5
    [] k = "Down"  -> 60 - 5

\* C6: an arrow key moves Selected(m) to Selected((m + step) mod 60), step
\* being +1, -1, +5, -5 for Right, Left, Up, Down, and an arrow key followed
\* by its opposite ends on the minute the first of the two started from.
C6_RoundTrip ==
  /\ (Len(moves) >= 1 /\ IsSome(moves[Len(moves)].from))
       => selected_minute
            = Some((Unwrap(moves[Len(moves)].from) + StepOf(moves[Len(moves)].key)) % 60)
  /\ (Len(moves) = 2 /\ IsSome(moves[1].from) /\ moves[2].key = Opposite(moves[1].key))
       => selected_minute = moves[1].from

\* Right from 59, then Left, is back on 59
C6_Witness ==
  /\ Len(moves) = 2
  /\ moves[1] = [key |-> "Right", from |-> Some(59)]
  /\ moves[2] = [key |-> "Left", from |-> Some(0)]
  /\ selected_minute = Some(59)

\* C7: Esc while editing minute m stores the text of the buffer under the key
\* of m, whatever the buffer holds and whatever was stored there, and leaves
\* the selection on m with editing off.
C7_EscCommits ==
  [][(is_editing /\ ev' = "Esc")
       => /\ ~is_editing'
          /\ IsSome(selected_minute)
          /\ selected_minute' = selected_minute
          /\ GetDateKey(Unwrap(selected_minute)) \in DOMAIN notes'
          /\ notes'[GetDateKey(Unwrap(selected_minute))].content = Join(textarea.lines)]_vars

\* Esc has committed an empty buffer
C7_Witness ==
  /\ ev = "Esc"
  /\ ~is_editing
  /\ IsSome(selected_minute)
  /\ textarea.lines = << << >> >>
  /\ GetDateKey(Unwrap(selected_minute)) \in DOMAIN notes
  /\ notes[GetDateKey(Unwrap(selected_minute))].content = << >>

\* the lines the text area shows for a stored text
ShownLines(content) ==
  IF StrLines(content) = << >> THEN << << >> >> ELSE StrLines(content)

\* C8: editing implies a selection; Enter with no selection changes nothing;
\* Enter on Selected(m) opens the editor on m with the lines of the note
\* stored under the key of m, or empty when there is none.
C8_EditingHasSelection ==
  /\ [](is_editing => IsSome(selected_minute))
  /\ [][(ev' = "Enter" /\ ~is_editing)
          => IF IsSome(selected_minute)
             THEN /\ is_editing'
                  /\ selected_minute' = selected_minute
                  /\ textarea'.lines =
                       IF GetDateKey(Unwrap(selected_minute)) \in DOMAIN notes
                       THEN ShownLines(notes[GetDateKey(Unwrap(selected_minute))].content)
                       ELSE << << >> >>
             ELSE UNCHANGED << appVars, file >>]_vars

\* Enter has opened the editor on a stored note
C8_Witness ==
  /\ ev = "Enter"
  /\ is_editing
  /\ IsSome(entry_key)
  /\ Unwrap(entry_key) \in DOMAIN notes
  /\ textarea.lines = << << "a" >> >>

\* C9: a poll that waits ends within the cadence window; a tick check that
\* finds the window elapsed calls on_tick and restarts the window; an
\* iteration ends without a tick only if an event ended its poll.
C9_TickPerWindow ==
  /\ [][(pc = "poll" /\ pc' = "tick")
          => (mono' = mono \/ mono' - last_tick <= TickRate)]_vars
  /\ [][(pc = "tick" /\ mono - last_tick >= TickRate)
          => /\ ticked'
             /\ real_time_last_tick' = wall
             /\ last_tick' = mono]_vars
  /\ [][(pc = "tick" /\ pc' # "tick" /\ ~ticked') => polled = "event"]_vars

\* an iteration has ended without a tick, after real time has passed
C9_Witness ==
  /\ pc = "draw"
  /\ IsSome(frame)
  /\ ~ticked
  /\ mono > last_tick

\* two renders in a row, the second after the first in real time, and no
\* on_tick between them
StaleFrame ==
  /\ IsSome(frame)
  /\ IsSome(prev_frame)
  /\ ~Unwrap(frame).after_tick
  /\ Unwrap(frame).at > Unwrap(prev_frame).at

\* C10 as stated: with a multiplier above 0, such two renders show different
\* virtual times.
C10_RenderTracksRealTime ==
  (pc = "poll" /\ StaleFrame /\ FLess(Zero, time_multiplier))
    => Unwrap(frame).shown # Unwrap(prev_frame).shown

\* C10, amended: a render shows virtual_time as the last on_tick left it, so
\* two renders with no on_tick between them show the same virtual time.
C10_RenderShowsLastTick ==
  /\ pc = "poll" => Unwrap(frame).shown = virtual_time
  /\ (IsSome(frame) /\ IsSome(prev_frame) /\ ~Unwrap(frame).after_tick)
       => Unwrap(frame).shown = Unwrap(prev_frame).shown

\* two such renders have happened at a multiplier above 0
C10_Witness == pc = "poll" /\ StaleFrame /\ FLess(Zero, time_multiplier)

\* the phase of emanation i in the frame f, and the distance of two phases
\* round the breath
PhaseOf(f, i) == BreathPhase(f.shown, Emanations[i])
PhaseDist(a, b) ==
  LET d == (a - b + BreathPeriod * Grid) % (BreathPeriod * Grid)
  IN  Min(d, BreathPeriod * Grid - d)

\* C11: in every frame the scale of every emanation lies in [0,1]; with t its
\* phase in [0,13) it is t/4 before 4, 1 from 4 to 5 and 1 - (t-5)/8 from 5;
\* it is 0 at 0 and 1 at 4 and at 5; it is the same 13 virtual seconds later;
\* and from one frame to the next it changes by no more than a quarter of
\* the phase between them, the turn from 13 to 0 included.
C11_BreathingScale ==
  IsSome(frame) =>
    \A i \in 1..Len(Emanations) :
      LET f == Unwrap(frame)
          t == PhaseOf(f, i)
          s == f.scales[i]
      IN  /\ t \in 0..(BreathPeriod * Grid - 1)
          /\ s \in 0..ScaleOne
          /\ t < 4 * Grid => s = 2 * t
          /\ (4 * Grid <= t /\ t < 5 * Grid) => s = ScaleOne
          /\ 5 * Grid <= t => ScaleOne - s = t - 5 * Grid
          /\ t = 0 => s = 0
          /\ t \in { 4 * Grid, 5 * Grid } => s = ScaleOne
          /\ s = GetBreathingScale(AddMicros(f.shown, BreathPeriod * MicrosPerSec),
                                   Emanations[i])
          /\ IsSome(prev_frame) =>
               Abs(s - Unwrap(prev_frame).scales[i])
                 <= 2 * PhaseDist(t, PhaseOf(Unwrap(prev_frame), i))

\* two frames with the end of a breath between them
C11_Witness ==
  /\ IsSome(frame) /\ IsSome(prev_frame)
  /\ PhaseOf(Unwrap(prev_frame), 1) >= 12 * Grid
  /\ PhaseOf(Unwrap(frame), 1) \in 1..(Grid - 1)
  /\ Unwrap(frame).scales[1] # Unwrap(prev_frame).scales[1]

\* the step that handles Esc in an edit session of a selected minute
EscCommits ==
  /\ pc = "poll" /\ pc' = "tick" /\ polled' = "event" /\ ev' = "Esc"
  /\ is_editing /\ IsSome(selected_minute)

\* C12: when the write of an Esc commit fails, the step is the step of a
\* write that succeeds but for the file: should_quit stays FALSE and the loop
\* goes on to the tick check, editing ends with the minute still selected,
\* and notes holds the buffer under the key; and the file is written by no
\* other step than an Esc commit, so a failed write is not tried again.
C12_SaveFailureTolerated ==
  [][ /\ (EscCommits /\ file' # notes') =>
           /\ file' = file
           /\ should_quit' = FALSE /\ pc' = "tick"
           /\ is_editing' = FALSE
           /\ selected_minute' = selected_minute
           /\ textarea' = textarea
           /\ time_multiplier' = time_multiplier
           /\ Lookup(notes', CommitKey(Unwrap(selected_minute)))
                = Some(CommitNote(textarea))
      /\ file' # file => EscCommits
      /\ (pc = "tick" /\ ev = "Esc" /\ ~should_quit) => pc' = "draw"
    ]_vars

\* an Esc has been handled, the minute is selected, and the file lacks the
\* note that notes holds
C12_Witness ==
  /\ pc = "tick" /\ polled = "event" /\ ev = "Esc"
  /\ ~is_editing /\ IsSome(selected_minute) /\ ~should_quit
  /\ \E k \in DOMAIN notes : k \notin DOMAIN file \/ file[k] # notes[k]

\* C13: a key other than Esc read while editing goes to the text area and
\* nowhere else: should_quit, time_multiplier, selected_minute, is_editing
\* and notes stay as they are; so while editing the loop is not quit.
C13_EditingConsumesKeys ==
  [][ /\ ( /\ pc = "poll" /\ pc' = "tick" /\ polled' = "event"
           /\ is_editing /\ ev' # "Esc" ) =>
           /\ should_quit' = should_quit
           /\ time_multiplier' = time_multiplier
           /\ selected_minute' = selected_minute
           /\ is_editing' = TRUE
           /\ notes' = notes
           /\ file' = file
           /\ ev' # "Mouse" => textarea' = TextAreaInput(textarea, ev')
      /\ is_editing => (~should_quit /\ pc # "done" /\ pc' # "done")
    ]_vars

\* the quit key has been typed into the buffer of an edit session
C13_Witness ==
  /\ pc = "tick" /\ polled = "event" /\ ev = "q"
  /\ is_editing /\ ~should_quit
  /\ Join(textarea.lines) = << "q" >>

====
